---- MODULE Spec2Model ----
(***************************************************************************)
(* Model of cobbler's in_tftpd manager (cobbler/modules/managers/          *)
(* in_tftpd.py): the full sync, the partial sync and the boot-file copier. *)
(***************************************************************************)
EXTENDS Naturals, Integers, Sequences, FiniteSets, TLC

(***************************************************************************)
(* Bounds of the model.                                                    *)
(***************************************************************************)
MaxDistros == 2
MaxHosts == 2
MaxArgs == 2
MaxPairs == 2
MaxSrcFiles == 2
MaxRuns == 2
MaxLines == 2

(***************************************************************************)
(* Names.                                                                  *)
(***************************************************************************)
DistroNames == <<"d1", "d2", "d3", "d4">>
HostNames == <<"h1", "h2", "h3", "h4">>
Distros == {DistroNames[n] : n \in 1..MaxDistros}
Hosts == {HostNames[n] : n \in 1..MaxHosts}

\* An identifier that matches every registered host (a wildcard name).
AnyHost == "*"
\* The string of length zero.
EmptyStr == ""
Idents == Hosts \cup {AnyHost, EmptyStr}

\* Sequences without repetition over S: a registry in its iteration order.
RECURSIVE InjSeqs(_)
InjSeqs(S) ==
    IF S = {} THEN {<<>>}
    ELSE {<<>>} \cup UNION {{<<x>> \o s : s \in InjSeqs(S \ {x})} : x \in S}

\* Sequences over S of length at most n.
RECURSIVE SeqsUpTo(_, _)
SeqsUpTo(S, n) ==
    IF n = 0 THEN {<<>>}
    ELSE LET shorter == SeqsUpTo(S, n - 1)
         IN  shorter \cup {Append(s, x) : s \in {t \in shorter : Len(t) = n - 1}, x \in S}

Range(s) == {s[n] : n \in 1..Len(s)}

(***************************************************************************)
(* Arguments of sync_systems: Python values with their runtime type.       *)
(***************************************************************************)
StrValues == [type : {"str"}, val : Idents]
NonStrValue == [type |-> "int", val |-> "0"]
ArgElems == StrValues \cup {NonStrValue}
SystemsArgs ==
    [isList : {TRUE}, elems : SeqsUpTo(ArgElems, MaxArgs)]
        \cup {[isList |-> FALSE, elems |-> <<>>]}
VerboseArgs == {"bool", "str"}

\* The menu-items aggregate returned by tftpgen.get_menu_items():
\* a dict that is empty (falsy in Python) or not.
MenuValues == {"empty", "items"}
NoMenu == "-"

VARIABLES
    distros,        \* self.distros, in iteration order
    systems,        \* self.systems, in iteration order
    distroOutcome,  \* what copy_single_distro_files does for each distro
    hostOutcome,    \* what write_all_system_files does for each host
    menuValue,      \* what get_menu_items() returns
    op,             \* the entry point running: "idle", "sync", "sync_systems", ...
    pc,             \* the position in it
    idx,            \* the index of the loop at pc
    argSystems,     \* sync_systems: the systems argument
    argVerbose,     \* sync_systems: the verbose argument
    system_objs,    \* sync_systems: the resolved hosts
    menu_items,     \* the local menu_items
    log,            \* the calls made to the collaborators, in order
    ret,            \* the value returned
    exc,            \* the exception that left the entry point
    template_files, \* copier: the distro's template_files, as ordered pairs
    distroName,     \* copier: distro.name
    fs,             \* copier: the regular files, path -> content
    dirs,           \* copier: the directories
    unreadable,     \* copier: the files that cannot be opened for reading
    listing,        \* copier: the order in which the source directory lists
    cpc,            \* copier: the position in write_boot_files_distro
    pairIdx,        \* copier: the index of the pair of the mapping
    remaining,      \* copier: the glob matches not yet iterated
    rendered,       \* copier: the pairs rendered, in order
    tasks,          \* copier: the files processed, in order
    errors,         \* copier: the logger.error calls of the except clause
    runs,           \* copier: the calls of write_boot_files_distro returned
    fsAfter,        \* copier: the files after each returned call
    cret,           \* copier: the value returned
    settings,       \* migrate: the settings document handed over
    confExists,     \* migrate: whether /etc/cobbler/modules.conf exists
    confLines,      \* migrate: the lines of /etc/cobbler/modules.conf
    confBefore,     \* migrate: the lines of the file when migrate was called
    confWrites,     \* migrate: the times the file was opened for writing
    modules_conf,   \* migrate: the local modules_conf
    mpc,            \* migrate: the position in migrate
    lineIdx,        \* migrate: the index of the loop over modules_conf
    mret,           \* migrate: the document returned
    mexc            \* migrate: the exception that left migrate

syncVars == <<distros, systems, distroOutcome, hostOutcome, menuValue, op, pc,
              idx, argSystems, argVerbose, system_objs, menu_items, log, ret, exc>>
copierVars == <<template_files, distroName, fs, dirs, unreadable, listing, cpc, pairIdx,
                remaining, rendered, tasks, errors, runs, fsAfter, cret>>
migrateVars == <<settings, confExists, confLines, confBefore, confWrites,
                 modules_conf, mpc, lineIdx, mret, mexc>>
vars == <<distros, systems, distroOutcome, hostOutcome, menuValue, op, pc,
          idx, argSystems, argVerbose, system_objs, menu_items, log, ret, exc,
          template_files, distroName, fs, dirs, unreadable, listing, cpc, pairIdx,
          remaining, rendered, tasks, errors, runs, fsAfter, cret,
          settings, confExists, confLines, confBefore, confWrites,
          modules_conf, mpc, lineIdx, mret, mexc>>

Ev(e, a, m) == [ev |-> e, arg |-> a, menu |-> m]

(***************************************************************************)
(* The collaborators of the manager.                                       *)
(***************************************************************************)
\* api.find_system(name=...): None, one host, or a list of hosts.
find_system(name) ==
    LET matches == IF name = AnyHost THEN Range(systems)
                   ELSE {h \in Range(systems) : h = name}
    IN  IF matches = {} THEN [kind |-> "None", obj |-> ""]
        ELSE IF Cardinality(matches) = 1
             THEN [kind |-> "one", obj |-> CHOOSE h \in matches : TRUE]
             ELSE [kind |-> "list", obj |-> ""]

\* tftpgen.get_menu_items()
get_menu_items == menuValue

\* Python truthiness of the menu_items dict.
Falsy(m) == m = NoMenu \/ m = "empty"

\* A handler that stops no exception class.
SyncCatchesNothing(e) == FALSE

\* "except CX": the exception classes the handler of sync's distro loop stops.
SyncCatches(e) == e = "CX"

(***************************************************************************)
(* The state of the copier while the orchestrator runs, and the reverse.   *)
(***************************************************************************)
CopierIdle ==
    /\ template_files = <<>>
    /\ distroName = ""
    /\ fs = <<>>
    /\ dirs = {}
    /\ unreadable = {}
    /\ listing = <<>>
    /\ cpc = "off"
    /\ pairIdx = 0
    /\ remaining = <<>>
    /\ rendered = <<>>
    /\ tasks = <<>>
    /\ errors = <<>>
    /\ runs = 0
    /\ fsAfter = <<>>
    /\ cret = -1

\* The state of the settings migration while the manager runs.
NoDocument == [none |-> TRUE]

MigrateOff ==
    /\ settings = NoDocument
    /\ confExists = FALSE
    /\ confLines = <<>>
    /\ confBefore = <<>>
    /\ confWrites = 0
    /\ modules_conf = <<>>
    /\ mpc = "off"
    /\ lineIdx = 0
    /\ mret = NoDocument
    /\ mexc = "-"

\* The registry a call finds: the hosts, what writing each of them does, and
\* the menu items.
HostRegistry ==
    /\ systems' \in InjSeqs(Hosts)
    /\ hostOutcome' \in [Range(systems') -> {"ok", "Exception"}]
    /\ menuValue' \in MenuValues

InitSync ==
    /\ distros = <<>>
    /\ systems = <<>>
    /\ distroOutcome = <<>>
    /\ hostOutcome = <<>>
    /\ menuValue = "empty"
    /\ op = "idle"
    /\ pc = "idle"
    /\ idx = 0
    /\ argSystems = [isList |-> FALSE, elems |-> <<>>]
    /\ argVerbose = "bool"
    /\ system_objs = <<>>
    /\ menu_items = NoMenu
    /\ log = <<>>
    /\ ret = "-"
    /\ exc = "-"
    /\ CopierIdle
    /\ MigrateOff

registry == <<distros, systems, distroOutcome, hostOutcome, menuValue>>

(***************************************************************************)
(* sync()                                                                  *)
(***************************************************************************)
CallSync ==
    /\ op = "idle"
    /\ distros' \in InjSeqs(Distros)
    /\ distroOutcome' \in [Range(distros') -> {"ok", "CX"}]
    /\ HostRegistry
    /\ op' = "sync"
    /\ pc' = "copy_bootloaders"
    /\ UNCHANGED <<idx, argSystems, argVerbose, system_objs,
                   menu_items, log, ret, exc, copierVars, migrateVars>>

SyncCopyBootloaders ==
    /\ op = "sync" /\ pc = "copy_bootloaders"
    /\ log' = Append(log, Ev("copy_bootloaders", "", NoMenu))
    /\ pc' = "distros"
    /\ idx' = 1
    /\ UNCHANGED <<registry, op, argSystems, argVerbose, system_objs,
                   menu_items, ret, exc, copierVars, migrateVars>>

\* The iteration that runs write_boot_files_distro on each distro it copied.
SyncCopyDistroAndBootFiles ==
    /\ op = "sync" /\ pc = "distros" /\ idx <= Len(distros)
    /\ LET d == distros[idx]
           called == Append(log, Ev("copy_single_distro_files", d, NoMenu))
       IN  IF distroOutcome[d] = "ok"
           THEN /\ log' = Append(called, Ev("write_boot_files_distro", d, NoMenu))
                /\ idx' = idx + 1
                /\ UNCHANGED <<pc, exc>>
           ELSE /\ log' = Append(called, Ev("logger.error", d, NoMenu))
                /\ idx' = idx + 1
                /\ UNCHANGED <<pc, exc>>
    /\ UNCHANGED <<registry, op, argSystems, argVerbose, system_objs,
                   menu_items, ret, copierVars, migrateVars>>

\* One iteration of "for distro in self.distros", with its try/except.
SyncCopyDistro ==
    /\ op = "sync" /\ pc = "distros" /\ idx <= Len(distros)
    /\ LET d == distros[idx]
           called == Append(log, Ev("copy_single_distro_files", d, NoMenu))
       IN  IF distroOutcome[d] = "ok"
           THEN /\ log' = called
                /\ idx' = idx + 1
                /\ UNCHANGED <<pc, exc>>
           ELSE IF SyncCatches(distroOutcome[d])
                THEN /\ log' = Append(called, Ev("logger.error", d, NoMenu))
                     /\ idx' = idx + 1
                     /\ UNCHANGED <<pc, exc>>
                ELSE /\ log' = called
                     /\ exc' = distroOutcome[d]
                     /\ pc' = "raised"
                     /\ UNCHANGED idx
    /\ UNCHANGED <<registry, op, argSystems, argVerbose, system_objs,
                   menu_items, ret, copierVars, migrateVars>>

SyncCopyImages ==
    /\ op = "sync" /\ pc = "distros" /\ idx > Len(distros)
    /\ log' = Append(log, Ev("copy_images", "", NoMenu))
    /\ pc' = "get_menu_items"
    /\ UNCHANGED <<registry, op, idx, argSystems, argVerbose, system_objs,
                   menu_items, ret, exc, copierVars, migrateVars>>

SyncGetMenuItems ==
    /\ op = "sync" /\ pc = "get_menu_items"
    /\ menu_items' = get_menu_items
    /\ log' = Append(log, Ev("get_menu_items", "", NoMenu))
    /\ pc' = "systems"
    /\ idx' = 1
    /\ UNCHANGED <<registry, op, argSystems, argVerbose, system_objs,
                   ret, exc, copierVars, migrateVars>>

\* The host loop with the aggregate computed again for every host.
SyncWriteSystemRecompute ==
    /\ op = "sync" /\ pc = "systems" /\ idx <= Len(systems)
    /\ LET h == systems[idx]
       IN  /\ log' = log \o <<Ev("get_menu_items", "", NoMenu),
                               Ev("write_all_system_files", h, get_menu_items)>>
           /\ IF hostOutcome[h] = "ok"
              THEN /\ idx' = idx + 1
                   /\ UNCHANGED <<pc, exc>>
              ELSE /\ exc' = hostOutcome[h]
                   /\ pc' = "raised"
                   /\ UNCHANGED idx
    /\ UNCHANGED <<registry, op, argSystems, argVerbose, system_objs,
                   menu_items, ret, copierVars, migrateVars>>

\* The host loop with a handler like the distro loop's around each write.
SyncWriteSystemIsolated ==
    /\ op = "sync" /\ pc = "systems" /\ idx <= Len(systems)
    /\ LET h == systems[idx]
           called == Append(log, Ev("write_all_system_files", h, menu_items))
       IN  /\ log' = IF hostOutcome[h] = "ok" THEN called
                     ELSE Append(called, Ev("logger.error", h, NoMenu))
           /\ idx' = idx + 1
    /\ UNCHANGED <<registry, op, pc, exc, argSystems, argVerbose, system_objs,
                   menu_items, ret, copierVars, migrateVars>>

\* One iteration of "for system in self.systems": no try around it.
SyncWriteSystem ==
    /\ op = "sync" /\ pc = "systems" /\ idx <= Len(systems)
    /\ LET h == systems[idx]
       IN  /\ log' = Append(log, Ev("write_all_system_files", h, menu_items))
           /\ IF hostOutcome[h] = "ok"
              THEN /\ idx' = idx + 1
                   /\ UNCHANGED <<pc, exc>>
              ELSE /\ exc' = hostOutcome[h]
                   /\ pc' = "raised"
                   /\ UNCHANGED idx
    /\ UNCHANGED <<registry, op, argSystems, argVerbose, system_objs,
                   menu_items, ret, copierVars, migrateVars>>

SyncMakePxeMenu ==
    /\ op = "sync" /\ pc = "systems" /\ idx > Len(systems)
    /\ log' = Append(log, Ev("make_pxe_menu", "", NoMenu))
    /\ pc' = "return"
    /\ UNCHANGED <<registry, op, idx, argSystems, argVerbose, system_objs,
                   menu_items, ret, exc, copierVars, migrateVars>>

SyncReturn ==
    /\ op = "sync" /\ pc = "return"
    /\ ret' = "0"
    /\ pc' = "done"
    /\ UNCHANGED <<registry, op, idx, argSystems, argVerbose, system_objs,
                   menu_items, log, exc, copierVars, migrateVars>>

(***************************************************************************)
(* write_boot_files() and add_single_distro(distro): the two callers of    *)
(* write_boot_files_distro, whose body is the copier below.                *)
(***************************************************************************)
CallWriteBootFiles ==
    /\ op = "idle"
    /\ distros' \in InjSeqs(Distros)
    /\ distroOutcome' \in [Range(distros') -> {"ok", "CX"}]
    /\ op' = "write_boot_files"
    /\ pc' = "distros"
    /\ idx' = 1
    /\ UNCHANGED <<systems, hostOutcome, menuValue, argSystems, argVerbose,
                   system_objs, menu_items, log, ret, exc, copierVars, migrateVars>>

\* One iteration of "for distro in self.distros".
WbfDistro ==
    /\ op = "write_boot_files" /\ pc = "distros" /\ idx <= Len(distros)
    /\ log' = Append(log, Ev("write_boot_files_distro", distros[idx], NoMenu))
    /\ idx' = idx + 1
    /\ UNCHANGED <<registry, op, pc, argSystems, argVerbose, system_objs,
                   menu_items, ret, exc, copierVars, migrateVars>>

WbfReturn ==
    /\ op = "write_boot_files" /\ pc = "distros" /\ idx > Len(distros)
    /\ ret' = "0"
    /\ pc' = "done"
    /\ UNCHANGED <<registry, op, idx, argSystems, argVerbose, system_objs,
                   menu_items, log, exc, copierVars, migrateVars>>

\* The distro handed over is distros[idx].
CallAddSingleDistro ==
    /\ op = "idle"
    /\ distros' \in InjSeqs(Distros)
    /\ distroOutcome' \in [Range(distros') -> {"ok", "CX"}]
    /\ idx' \in 1..Len(distros')
    /\ op' = "add_single_distro"
    /\ pc' = "copy"
    /\ UNCHANGED <<systems, hostOutcome, menuValue, argSystems, argVerbose,
                   system_objs, menu_items, log, ret, exc, copierVars, migrateVars>>

\* tftpgen.copy_single_distro_files(distro, self.bootloc, False), no handler.
AsdCopy ==
    /\ op = "add_single_distro" /\ pc = "copy"
    /\ LET d == distros[idx]
       IN  /\ log' = Append(log, Ev("copy_single_distro_files", d, NoMenu))
           /\ IF distroOutcome[d] = "ok"
              THEN /\ pc' = "write_boot_files_distro"
                   /\ UNCHANGED exc
              ELSE /\ exc' = distroOutcome[d]
                   /\ pc' = "raised"
    /\ UNCHANGED <<registry, op, idx, argSystems, argVerbose, system_objs,
                   menu_items, ret, copierVars, migrateVars>>

\* self.write_boot_files_distro(distro), then the end of the method.
AsdWriteBootFiles ==
    /\ op = "add_single_distro" /\ pc = "write_boot_files_distro"
    /\ log' = Append(log, Ev("write_boot_files_distro", distros[idx], NoMenu))
    /\ ret' = "None"
    /\ pc' = "done"
    /\ UNCHANGED <<registry, op, idx, argSystems, argVerbose, system_objs,
                   menu_items, exc, copierVars, migrateVars>>

(***************************************************************************)
(* sync_systems(systems, verbose)                                          *)
(***************************************************************************)
\* The test without the check of the elements.
IsListOnly(a) == a.isList

\* The test refusing the string of length zero as well.
IsListOfNonEmptyStr(a) ==
    /\ a.isList
    /\ \A n \in 1..Len(a.elems) :
          a.elems[n].type = "str" /\ a.elems[n].val # EmptyStr

\* isinstance(systems, list) and all(isinstance(sys_name, str) ...)
IsListOfStr(a) ==
    /\ a.isList
    /\ \A n \in 1..Len(a.elems) : a.elems[n].type = "str"

CallSyncSystems ==
    /\ op = "idle"
    /\ \E a \in SystemsArgs, v \in VerboseArgs :
          /\ argSystems' = a
          /\ argVerbose' = v
    /\ HostRegistry
    /\ op' = "sync_systems"
    /\ pc' = "typecheck"
    /\ UNCHANGED <<distros, distroOutcome, idx, system_objs, menu_items, log,
                   ret, exc, copierVars, migrateVars>>

\* The two isinstance checks that open the method.
SsTypeCheck ==
    /\ op = "sync_systems" /\ pc = "typecheck"
    /\ IF ~IsListOfStr(argSystems) \/ argVerbose # "bool"
       THEN /\ exc' = "TypeError"
            /\ pc' = "raised"
            /\ UNCHANGED <<idx, system_objs>>
       ELSE /\ pc' = "find"
            /\ idx' = 1
            /\ system_objs' = <<>>
            /\ UNCHANGED exc
    /\ UNCHANGED <<registry, op, argSystems, argVerbose, menu_items, log, ret,
                   copierVars, migrateVars>>

\* The lookup loop writing each host as soon as it is resolved.
SsFindSystemWriteEager ==
    /\ op = "sync_systems" /\ pc = "find" /\ idx <= Len(argSystems.elems)
    /\ LET name == argSystems.elems[idx].val
           found == find_system(name)
           called == Append(log, Ev("find_system", name, NoMenu))
       IN  IF found.kind = "None"
           THEN /\ log' = Append(called, Ev("logger.info", name, NoMenu))
                /\ idx' = idx + 1
                /\ UNCHANGED <<system_objs, pc, exc>>
           ELSE IF found.kind = "list"
                THEN /\ log' = called
                     /\ exc' = "ValueError"
                     /\ pc' = "raised"
                     /\ UNCHANGED <<system_objs, idx>>
                ELSE /\ log' = Append(called,
                                Ev("write_all_system_files", found.obj, get_menu_items))
                     /\ system_objs' = Append(system_objs, found.obj)
                     /\ idx' = idx + 1
                     /\ UNCHANGED <<pc, exc>>
    /\ UNCHANGED <<registry, op, argSystems, argVerbose, menu_items, ret,
                   copierVars, migrateVars>>

\* One iteration of "for system_name in systems".
SsFindSystem ==
    /\ op = "sync_systems" /\ pc = "find" /\ idx <= Len(argSystems.elems)
    /\ LET name == argSystems.elems[idx].val
           found == find_system(name)
           called == Append(log, Ev("find_system", name, NoMenu))
       IN  IF found.kind = "None"
           THEN /\ log' = Append(called, Ev("logger.info", name, NoMenu))
                /\ idx' = idx + 1
                /\ UNCHANGED <<system_objs, pc, exc>>
           ELSE IF found.kind = "list"
                THEN /\ log' = called
                     /\ exc' = "ValueError"
                     /\ pc' = "raised"
                     /\ UNCHANGED <<system_objs, idx>>
                ELSE /\ log' = called
                     /\ system_objs' = Append(system_objs, found.obj)
                     /\ idx' = idx + 1
                     /\ UNCHANGED <<pc, exc>>
    /\ UNCHANGED <<registry, op, argSystems, argVerbose, menu_items, ret,
                   copierVars, migrateVars>>

SsGetMenuItems ==
    /\ op = "sync_systems" /\ pc = "find" /\ idx > Len(argSystems.elems)
    /\ menu_items' = get_menu_items
    /\ log' = Append(log, Ev("get_menu_items", "", NoMenu))
    /\ pc' = "single"
    /\ idx' = 1
    /\ UNCHANGED <<registry, op, argSystems, argVerbose, system_objs, ret, exc,
                   copierVars, migrateVars>>

\* sync_single_system(system, menu_items), first statement: the aggregate
\* handed over is computed again when it is falsy.
SingleMenuItems ==
    /\ op = "sync_systems" /\ pc = "single" /\ idx <= Len(system_objs)
    /\ IF Falsy(menu_items)
       THEN log' = Append(log, Ev("get_menu_items", "", NoMenu))
       ELSE UNCHANGED log
    /\ pc' = "single_write"
    /\ UNCHANGED <<registry, op, idx, argSystems, argVerbose, system_objs,
                   menu_items, ret, exc, copierVars, migrateVars>>

\* The write with the resolved hosts taken from the end of the list.
SingleWriteAllReversed ==
    /\ op = "sync_systems" /\ pc = "single_write"
    /\ LET h == system_objs[Len(system_objs) + 1 - idx]
           used == IF Falsy(menu_items) THEN get_menu_items ELSE menu_items
       IN  /\ log' = Append(log, Ev("write_all_system_files", h, used))
           /\ IF hostOutcome[h] = "ok"
              THEN /\ pc' = "single_templates"
                   /\ UNCHANGED exc
              ELSE /\ exc' = hostOutcome[h]
                   /\ pc' = "raised"
    /\ UNCHANGED <<registry, op, idx, argSystems, argVerbose, system_objs,
                   menu_items, ret, copierVars, migrateVars>>

\* sync_single_system: tftpgen.write_all_system_files(system, menu_items)
SingleWriteAll ==
    /\ op = "sync_systems" /\ pc = "single_write"
    /\ LET h == system_objs[idx]
           used == IF Falsy(menu_items) THEN get_menu_items ELSE menu_items
       IN  /\ log' = Append(log, Ev("write_all_system_files", h, used))
           /\ IF hostOutcome[h] = "ok"
              THEN /\ pc' = "single_templates"
                   /\ UNCHANGED exc
              ELSE /\ exc' = hostOutcome[h]
                   /\ pc' = "raised"
    /\ UNCHANGED <<registry, op, idx, argSystems, argVerbose, system_objs,
                   menu_items, ret, copierVars, migrateVars>>

\* sync_single_system: tftpgen.write_templates(system), then return 0
SingleWriteTemplates ==
    /\ op = "sync_systems" /\ pc = "single_templates"
    /\ log' = Append(log, Ev("write_templates", system_objs[idx], NoMenu))
    /\ pc' = "single"
    /\ idx' = idx + 1
    /\ UNCHANGED <<registry, op, argSystems, argVerbose, system_objs,
                   menu_items, ret, exc, copierVars, migrateVars>>

\* The boot menu regenerated only when a host was written.
SsMakePxeMenuIfAny ==
    /\ op = "sync_systems" /\ pc = "single" /\ idx > Len(system_objs)
    /\ log' = IF system_objs = <<>> THEN log
              ELSE Append(log, Ev("make_pxe_menu", "", NoMenu))
    /\ pc' = "return"
    /\ UNCHANGED <<registry, op, idx, argSystems, argVerbose, system_objs,
                   menu_items, ret, exc, copierVars, migrateVars>>

SsMakePxeMenu ==
    /\ op = "sync_systems" /\ pc = "single" /\ idx > Len(system_objs)
    /\ log' = Append(log, Ev("make_pxe_menu", "", NoMenu))
    /\ pc' = "return"
    /\ UNCHANGED <<registry, op, idx, argSystems, argVerbose, system_objs,
                   menu_items, ret, exc, copierVars, migrateVars>>

SsReturn ==
    /\ op = "sync_systems" /\ pc = "return"
    /\ ret' = "None"
    /\ pc' = "done"
    /\ UNCHANGED <<registry, op, idx, argSystems, argVerbose, system_objs,
                   menu_items, log, exc, copierVars, migrateVars>>

NextSync ==
    \/ CallSync
    \/ SyncCopyBootloaders
    \/ SyncCopyDistro
    \/ SyncCopyImages
    \/ SyncGetMenuItems
    \/ SyncWriteSystem
    \/ SyncMakePxeMenu
    \/ SyncReturn
    \/ CallWriteBootFiles
    \/ WbfDistro
    \/ WbfReturn
    \/ CallAddSingleDistro
    \/ AsdCopy
    \/ AsdWriteBootFiles
    \/ CallSyncSystems
    \/ SsTypeCheck
    \/ SsFindSystem
    \/ SsGetMenuItems
    \/ SingleMenuItems
    \/ SingleWriteAll
    \/ SingleWriteTemplates
    \/ SsMakePxeMenu
    \/ SsReturn

SpecSync == InitSync /\ [][NextSync]_vars

TypeOKSync ==
    /\ op \in {"idle", "sync", "sync_systems", "write_boot_files", "add_single_distro"}
    /\ ret \in {"-", "0", "None"}
    /\ exc \in {"-", "TypeError", "ValueError", "Exception", "CX"}
    /\ menu_items \in MenuValues \cup {NoMenu}

(***************************************************************************)
(* Reading the log.                                                        *)
(***************************************************************************)
IsPrefix(s, t) == Len(s) <= Len(t) /\ SubSeq(t, 1, Len(s)) = s

EventsOf(name) == SelectSeq(log, LAMBDA e : e.ev = name)
ArgsOf(name) == [n \in 1..Len(EventsOf(name)) |-> EventsOf(name)[n].arg]
CountOf(name) == Len(EventsOf(name))

\* The calls to the collaborators, without the logger's lines.
CollabCalls ==
    SelectSeq(log, LAMBDA e : e.ev # "logger.error" /\ e.ev # "logger.info")

LastEvent == log[Len(log)]

SyncEnded == op = "sync" /\ pc \in {"done", "raised"}
SyncPastDistros == op = "sync" /\ pc \notin {"copy_bootloaders", "distros"}

SyncOrder ==
    <<Ev("copy_bootloaders", "", NoMenu)>>
    \o [n \in 1..Len(distros) |-> Ev("copy_single_distro_files", distros[n], NoMenu)]
    \o <<Ev("copy_images", "", NoMenu), Ev("get_menu_items", "", NoMenu)>>
    \o [n \in 1..Len(systems) |-> Ev("write_all_system_files", systems[n], menuValue)]
    \o <<Ev("make_pxe_menu", "", NoMenu)>>

C2_SyncFixedOrder ==
    op = "sync" =>
        /\ IsPrefix(CollabCalls, SyncOrder)
        /\ pc \in {"return", "done"} => CollabCalls = SyncOrder

\* A sync that returned after two distributions and two hosts.
C2_Witness ==
    /\ op = "sync" /\ pc = "done"
    /\ Len(distros) = 2 /\ Len(systems) = 2
    /\ CountOf("get_menu_items") = 1
    /\ LastEvent.ev = "make_pxe_menu"

(***************************************************************************)
(* C3: in a full sync the first per-host write that fails ends the pass:   *)
(* the exception leaves sync, nothing runs after it, no later host is      *)
(* written, the boot menu is not regenerated, nothing is returned, and     *)
(* every distribution has been attempted before; a sync that returned had  *)
(* no failing host.                                                        *)
(***************************************************************************)
C3_HostFailureTerminates ==
    /\ (op = "sync" /\ pc = "raised") =>
          /\ exc = "Exception"
          /\ ret = "-"
          /\ ~ENABLED NextSync
          /\ ArgsOf("write_all_system_files") = SubSeq(systems, 1, idx)
          /\ hostOutcome[systems[idx]] # "ok"
          /\ \A n \in 1..(idx - 1) : hostOutcome[systems[n]] = "ok"
          /\ CountOf("make_pxe_menu") = 0
          /\ ArgsOf("copy_single_distro_files") = distros
    /\ (op = "sync" /\ pc \in {"return", "done"}) =>
          \A h \in Range(systems) : hostOutcome[h] = "ok"

\* A sync ended by the first of two hosts, after a failed distribution.
C3_Witness ==
    /\ op = "sync" /\ pc = "raised"
    /\ idx = 1 /\ Len(systems) = 2
    /\ \E d \in Range(distros) : distroOutcome[d] = "CX"

(***************************************************************************)
(* Partial sync: what the input resolves to.                               *)
(***************************************************************************)
ValidInput == IsListOfStr(argSystems) /\ argVerbose = "bool"
KindOf(n) == find_system(argSystems.elems[n].val).kind
Ambiguous == \E n \in 1..Len(argSystems.elems) : KindOf(n) = "list"
InputNames == [n \in 1..Len(argSystems.elems) |-> argSystems.elems[n].val]

\* The hosts the identifiers resolve to, in the order of the list.
RECURSIVE Resolved(_)
Resolved(n) ==
    IF n = 0 THEN <<>>
    ELSE IF KindOf(n) = "one"
         THEN Append(Resolved(n - 1), find_system(argSystems.elems[n].val).obj)
         ELSE Resolved(n - 1)

HostWrites == CountOf("write_all_system_files") + CountOf("write_templates")
SsEnded == op = "sync_systems" /\ pc \in {"done", "raised"}
SsPastFind == op = "sync_systems" /\ pc \notin {"typecheck", "find", "raised"}

(***************************************************************************)
(* C4: in a partial sync an identifier that resolves to no host is logged  *)
(* and skipped and the identifiers after it are still looked up; when an   *)
(* identifier of the list resolves to more than one host the call fails    *)
(* with no host config written, wherever the identifier stands in the list.*)
(***************************************************************************)
C4_MissingSkippedAmbiguousFatal ==
    /\ (op = "sync_systems" /\ pc = "find") =>
          /\ ArgsOf("find_system") = SubSeq(InputNames, 1, idx - 1)
          /\ system_objs = Resolved(idx - 1)
          /\ ArgsOf("logger.info")
                = SelectSeq(SubSeq(InputNames, 1, idx - 1),
                            LAMBDA name : find_system(name).kind = "None")
    /\ SsPastFind =>
          /\ ArgsOf("find_system") = InputNames
          /\ system_objs = Resolved(Len(InputNames))
    /\ (op = "sync_systems" /\ ValidInput /\ Ambiguous) =>
          /\ HostWrites = 0
          /\ pc \in {"typecheck", "find", "raised"}
          /\ pc = "raised" => exc = "ValueError" /\ ret = "-" /\ ~ENABLED NextSync
    /\ (op = "sync_systems" /\ exc = "ValueError") =>
          /\ KindOf(idx) = "list"
          /\ HostWrites = 0

\* The call failed on an ambiguous second identifier, after a first one that
\* resolved to no host was logged and skipped.
C4_Witness ==
    /\ op = "sync_systems" /\ pc = "raised" /\ exc = "ValueError"
    /\ idx = 2
    /\ KindOf(1) = "None"
    /\ ArgsOf("logger.info") = <<argSystems.elems[1].val>>
    /\ HostWrites = 0

Path(d, n) == [dir |-> d, name |-> n]
split(p) == <<p.dir, p.name>>
join(d, n) == Path(d, n)

\* api.settings().tftpboot_location and api.settings().webdir
bootloc == <<"tftpboot">>
webdir == <<"www">>

SrcDir == <<"src">>
BootDir == <<"boot">>

\* The placeholders a template may start with.
LocalImgVar == <<"$local_img_path">>
WebImgVar == <<"$web_img_path">>

\* The metadata handed to the templar.
Metadata(name) ==
    [local_img_path |-> bootloc \o <<"images", name>>,
     web_img_path |-> webdir \o <<"distro_mirror", name>>]

\* templater.render(template, metadata, None): the placeholder is replaced
\* by its value.
render(t, md) ==
    IF t.dir = LocalImgVar THEN Path(md.local_img_path, t.name)
    ELSE IF t.dir = WebImgVar THEN Path(md.web_img_path, t.name)
    ELSE t

\* The names of the files of the source directory, and the templates.
SrcNames == {<<"a">>, <<"a", "b">>, <<"a", "*">>, <<"b">>}
PairChoices ==
    [dst : {Path(BootDir, <<"a">>), Path(BootDir, <<"k">>), Path(LocalImgVar, <<"k">>)},
     src : {Path(SrcDir, n) : n \in SrcNames}]

\* template_files is a dict: no key twice, in insertion order.
Mappings ==
    {m \in SeqsUpTo(PairChoices, MaxPairs) :
        \A i, j \in 1..Len(m) : i # j => m[i].dst # m[j].dst}

\* The directory and its ancestors, as filesystem_helpers.mkdir makes them.
Ancestors(d) == {SubSeq(d, 1, n) : n \in 1..Len(d)}

\* glob.has_magic
HasMagic(n) == \E i \in 1..Len(n) : n[i] = "*"

\* fnmatch of one path segment, "*" standing for any run of characters.
RECURSIVE FnMatch(_, _)
FnMatch(pat, n) ==
    IF pat = <<>> THEN n = <<>>
    ELSE IF Head(pat) = "*"
         THEN FnMatch(Tail(pat), n) \/ (n # <<>> /\ FnMatch(pat, Tail(n)))
         ELSE n # <<>> /\ Head(n) = Head(pat) /\ FnMatch(Tail(pat), Tail(n))

\* The files of directory d in the order the directory lists them.
Listed(d) ==
    IF d = SrcDir
    THEN [n \in 1..Len(listing) |-> Path(SrcDir, listing[n])]
    ELSE <<>>

\* glob.glob(pattern): the pattern itself when it has no wildcard and exists,
\* the matching entries of its directory otherwise.
Glob(pattern) ==
    IF ~HasMagic(pattern.name)
    THEN IF pattern \in DOMAIN fs THEN <<pattern>> ELSE <<>>
    ELSE IF pattern.dir \in dirs
         THEN SelectSeq(Listed(pattern.dir),
                        LAMBDA f : f \in DOMAIN fs /\ FnMatch(pattern.name, f.name))
         ELSE <<>>

rendered_target_file(n) == render(template_files[n].dst, Metadata(distroName))
rendered_source_file(n) == render(template_files[n].src, Metadata(distroName))

\* The destination with the wildcard branch taken for every file.
FileDstAlwaysGlob(file, source, target) ==
    join(split(target)[1], split(file)[2])

\* filedst, as the two branches of "if file == rendered_source_file" set it.
FileDst(file, source, target) ==
    IF file = source
    THEN target
    ELSE join(split(target)[1], split(file)[2])

\* The copy done whether or not the destination is a file already.
ShouldCopyAlways(dst) == TRUE

\* not os.path.isfile(filedst)
ShouldCopy(dst) == dst \notin DOMAIN fs

\* shutil.copyfile(file, filedst) raises when the source cannot be read or
\* the directory of the destination does not exist (ds: the directories).
CopyFails(file, dst, ds) == file \in unreadable \/ dst.dir \notin ds

\* A handler that stops no exception class.
CopierCatchesNothing(e) == FALSE

\* "except Exception" around the loop over the matches of one pair.
CopierCatches(e) == e \in {"OSError", "Exception"}

OldContent == <<"old">>

\* The files a source directory listing stands for: each holds its own name.
SourceFiles(l) == [f \in {Path(SrcDir, l[n]) : n \in 1..Len(l)} |-> f.name]

ImgDir == Metadata(DistroNames[1]).local_img_path

InitCopier ==
    /\ distros = <<>>
    /\ systems = <<>>
    /\ distroOutcome = <<>>
    /\ hostOutcome = <<>>
    /\ menuValue = "empty"
    /\ op = "copier"
    /\ pc = "idle"
    /\ idx = 0
    /\ argSystems = [isList |-> FALSE, elems |-> <<>>]
    /\ argVerbose = "bool"
    /\ system_objs = <<>>
    /\ menu_items = NoMenu
    /\ log = <<>>
    /\ ret = "-"
    /\ exc = "-"
    /\ MigrateOff
    /\ distroName = DistroNames[1]
    /\ template_files \in Mappings
    /\ listing \in {l \in InjSeqs(SrcNames) : Len(l) <= MaxSrcFiles}
    /\ unreadable \in SUBSET ({Path(SrcDir, <<"a", "b">>)} \cap DOMAIN SourceFiles(listing))
    /\ \E boot \in {"missing", "empty", "old"}, img \in BOOLEAN :
          /\ dirs = {SrcDir}
                      \cup (IF boot = "missing" THEN {} ELSE {BootDir})
                      \cup (IF img THEN Ancestors(ImgDir) ELSE {})
          /\ fs = IF boot = "old"
                  THEN SourceFiles(listing) @@ (Path(BootDir, <<"a">>) :> OldContent)
                  ELSE SourceFiles(listing)
    /\ cpc = "idle"
    /\ pairIdx = 0
    /\ remaining = <<>>
    /\ rendered = <<>>
    /\ tasks = <<>>
    /\ errors = <<>>
    /\ runs = 0
    /\ fsAfter = <<>>
    /\ cret = -1

copierInputs == <<template_files, distroName, unreadable, listing>>

\* The call: the blender, the metadata, the templar (lines 57-72).
CallCopier ==
    /\ cpc = "idle" /\ runs < MaxRuns
    /\ cpc' = "pair"
    /\ pairIdx' = 1
    /\ cret' = -1
    /\ UNCHANGED <<migrateVars, syncVars, copierInputs, fs, dirs, remaining, rendered, tasks,
                   errors, runs, fsAfter>>

\* One pair of the mapping: both templates rendered, the source globbed.
CopierRenderPair ==
    /\ cpc = "pair" /\ pairIdx <= Len(template_files)
    /\ remaining' = Glob(rendered_source_file(pairIdx))
    /\ rendered' = Append(rendered, [run |-> runs + 1, pair |-> pairIdx])
    /\ cpc' = "files"
    /\ UNCHANGED <<migrateVars, syncVars, copierInputs, fs, dirs, pairIdx, tasks, errors,
                   runs, fsAfter, cret>>

\* The iteration with the try around each file instead of around the loop.
CopierFilePerFile ==
    /\ cpc = "files" /\ remaining # <<>>
    /\ LET file == Head(remaining)
           source == rendered_source_file(pairIdx)
           target == rendered_target_file(pairIdx)
           filedst == FileDst(file, source, target)
           rnd_path == split(target)[1]
           made == IF file # source /\ rnd_path \notin dirs
                   THEN dirs \cup Ancestors(rnd_path)
                   ELSE dirs
           copies == ShouldCopy(filedst)
           fails == copies /\ CopyFails(file, filedst, made)
           task == [run |-> runs + 1, pair |-> pairIdx, file |-> file,
                    filedst |-> filedst,
                    outcome |-> IF fails THEN "failed"
                                ELSE IF copies THEN "copied" ELSE "skipped"]
       IN  /\ dirs' = made
           /\ tasks' = Append(tasks, task)
           /\ errors' = IF fails
                        THEN Append(errors, [run |-> runs + 1, pair |-> pairIdx,
                                             file |-> file, filedst |-> filedst])
                        ELSE errors
           /\ fs' = IF copies /\ ~fails
                    THEN [q \in DOMAIN fs \cup {filedst} |->
                             IF q = filedst THEN fs[file] ELSE fs[q]]
                    ELSE fs
           /\ remaining' = Tail(remaining)
           /\ UNCHANGED <<pairIdx, cpc>>
    /\ UNCHANGED <<migrateVars, syncVars, copierInputs, rendered, runs, fsAfter, cret>>

\* One iteration of "for file in glob.glob(rendered_source_file)", inside the
\* try; an exception ends the iteration over this pair's matches.
CopierFile ==
    /\ cpc = "files" /\ remaining # <<>>
    /\ LET file == Head(remaining)
           source == rendered_source_file(pairIdx)
           target == rendered_target_file(pairIdx)
           filedst == FileDst(file, source, target)
           rnd_path == split(target)[1]
           made == IF file # source /\ rnd_path \notin dirs
                   THEN dirs \cup Ancestors(rnd_path)
                   ELSE dirs
           copies == ShouldCopy(filedst)
           fails == copies /\ CopyFails(file, filedst, made)
           task == [run |-> runs + 1, pair |-> pairIdx, file |-> file,
                    filedst |-> filedst,
                    outcome |-> IF fails THEN "failed"
                                ELSE IF copies THEN "copied" ELSE "skipped"]
       IN  /\ dirs' = made
           /\ tasks' = Append(tasks, task)
           /\ IF fails
              THEN /\ UNCHANGED fs
                   /\ IF CopierCatches("OSError")
                      THEN /\ errors' = Append(errors,
                                  [run |-> runs + 1, pair |-> pairIdx,
                                   file |-> file, filedst |-> filedst])
                           /\ remaining' = <<>>
                           /\ pairIdx' = pairIdx + 1
                           /\ cpc' = "pair"
                      ELSE /\ cpc' = "raised"
                           /\ UNCHANGED <<errors, remaining, pairIdx>>
              ELSE /\ fs' = IF copies
                            THEN [q \in DOMAIN fs \cup {filedst} |->
                                     IF q = filedst THEN fs[file] ELSE fs[q]]
                            ELSE fs
                   /\ remaining' = Tail(remaining)
                   /\ UNCHANGED <<errors, pairIdx, cpc>>
    /\ UNCHANGED <<migrateVars, syncVars, copierInputs, rendered, runs, fsAfter, cret>>

\* The matches of the pair are exhausted: the next pair.
CopierNextPair ==
    /\ cpc = "files" /\ remaining = <<>>
    /\ pairIdx' = pairIdx + 1
    /\ cpc' = "pair"
    /\ UNCHANGED <<migrateVars, syncVars, copierInputs, fs, dirs, remaining, rendered, tasks,
                   errors, runs, fsAfter, cret>>

\* The return value counting the files processed in the call.
CopierReturnCount ==
    /\ cpc = "pair" /\ pairIdx > Len(template_files)
    /\ cret' = Cardinality({n \in 1..Len(tasks) : tasks[n].run = runs + 1})
    /\ runs' = runs + 1
    /\ fsAfter' = Append(fsAfter, fs)
    /\ cpc' = "idle"
    /\ UNCHANGED <<migrateVars, syncVars, copierInputs, fs, dirs, pairIdx, remaining,
                   rendered, tasks, errors>>

\* return 0
CopierReturn ==
    /\ cpc = "pair" /\ pairIdx > Len(template_files)
    /\ cret' = 0
    /\ runs' = runs + 1
    /\ fsAfter' = Append(fsAfter, fs)
    /\ cpc' = "idle"
    /\ UNCHANGED <<migrateVars, syncVars, copierInputs, fs, dirs, pairIdx, remaining,
                   rendered, tasks, errors>>

NextCopier ==
    \/ CallCopier
    \/ CopierRenderPair
    \/ CopierFile
    \/ CopierNextPair
    \/ CopierReturn

SpecCopier == InitCopier /\ [][NextCopier]_vars

TypeOKCopier ==
    /\ cpc \in {"idle", "pair", "files", "raised"}
    /\ runs \in 0..MaxRuns
    /\ cret \in {-1, 0}
    /\ \A f \in DOMAIN fs : f.dir \in dirs

(***************************************************************************)
(* Reading the copier's history.                                           *)
(***************************************************************************)
TaskIdx == 1..Len(tasks)
CopierReturned == cpc = "idle" /\ runs >= 1

\* The destination of the wildcard branch: the parent directory of the
\* rendered destination joined with the last segment of the matched file.
GlobDst(t) ==
    join(split(rendered_target_file(t.pair))[1], split(t.file)[2])

\* The set of paths the rendered source of pair n expands to.
MatchSet(n) == Range(Glob(rendered_source_file(n)))

C7_ExistingNeverChanged ==
    [][ /\ \A q \in DOMAIN fs : q \in DOMAIN fs' /\ fs'[q] = fs[q]
        /\ Len(tasks') > Len(tasks) =>
              LET t == tasks'[Len(tasks')]
              IN  /\ t.filedst \in DOMAIN fs => t.outcome = "skipped"
                  /\ t.outcome = "copied" =>
                        /\ t.filedst \notin DOMAIN fs
                        /\ DOMAIN fs' = DOMAIN fs \cup {t.filedst}
                        /\ fs'[t.filedst] = fs[t.file]
                  /\ t.outcome # "copied" => fs' = fs
      ]_vars

\* One file was kept at a destination where the source holds something else,
\* and another file was copied.
C7_Witness ==
    /\ \E n \in TaskIdx :
          /\ tasks[n].outcome = "skipped"
          /\ fs[tasks[n].filedst] = OldContent
          /\ fs[tasks[n].file] # OldContent
    /\ \E n \in TaskIdx :
          /\ tasks[n].outcome = "copied"
          /\ fs[tasks[n].filedst] = fs[tasks[n].file]

(***************************************************************************)
(* C8: a failure while copying for one pair of the mapping is caught and   *)
(* does not end the call: the call never raises, the failure is logged,    *)
(* the pairs are rendered one after the other in the mapping's order, all  *)
(* of them in a call that returned, and the call returns.                  *)
(***************************************************************************)
C8_PairFailureCaught ==
    /\ cpc # "raised"
    /\ cpc # "idle" => ENABLED NextCopier
    /\ \A n \in TaskIdx :
          tasks[n].outcome = "failed" =>
              \E e \in Range(errors) :
                  /\ e.run = tasks[n].run /\ e.pair = tasks[n].pair
                  /\ e.file = tasks[n].file /\ e.filedst = tasks[n].filedst
    /\ \A r \in 1..MaxRuns :
          LET mine == SelectSeq(rendered, LAMBDA x : x.run = r)
              pairs == [n \in 1..Len(mine) |-> mine[n].pair]
              all == [n \in 1..Len(template_files) |-> n]
          IN  /\ IsPrefix(pairs, all)
              /\ r <= runs => pairs = all
              /\ (r = runs + 1 /\ cpc \in {"pair", "files"}) =>
                    Len(pairs) = (IF cpc = "pair" THEN pairIdx - 1 ELSE pairIdx)
    /\ CopierReturned => cret = 0

\* The call returned after the copy of the first pair failed and a file of
\* the second pair was copied.
C8_Witness ==
    /\ CopierReturned
    /\ \E m, n \in TaskIdx :
          /\ m < n
          /\ tasks[m].run = 1 /\ tasks[m].pair = 1 /\ tasks[m].outcome = "failed"
          /\ tasks[n].run = 1 /\ tasks[n].pair = 2 /\ tasks[n].outcome = "copied"

(***************************************************************************)
(* C9: when the rendered source is a glob (it does not expand to exactly   *)
(* itself), the destination of every matched file is the parent directory  *)
(* of the rendered destination joined with the file's last path segment.   *)
(***************************************************************************)
C9_GlobDestinations ==
    \A n \in TaskIdx :
        MatchSet(tasks[n].pair) # {rendered_source_file(tasks[n].pair)}
            => tasks[n].filedst = GlobDst(tasks[n])

(***************************************************************************)
(* C10: when the rendered source is a literal path (it expands to exactly  *)
(* itself), the destination is the rendered destination, unchanged.        *)
(***************************************************************************)
C10_LiteralDestination ==
    \A n \in TaskIdx :
        MatchSet(tasks[n].pair) = {rendered_source_file(tasks[n].pair)}
            => tasks[n].filedst = rendered_target_file(tasks[n].pair)

\* A literal source was copied to a rendered destination of another name,
\* below the rendered image directory of the distro.
C10_Witness ==
    \E n \in TaskIdx :
        /\ ~HasMagic(rendered_source_file(tasks[n].pair).name)
        /\ tasks[n].file = rendered_source_file(tasks[n].pair)
        /\ tasks[n].outcome = "copied"
        /\ tasks[n].filedst = Path(ImgDir, <<"k">>)
        /\ tasks[n].file.name # <<"k">>
        /\ fs[tasks[n].filedst] = tasks[n].file.name

(***************************************************************************)
(* C11 as stated: write_boot_files_distro returns the number of matched    *)
(* source files it processed in the call, whether their copies failed or   *)
(* not.                                                                    *)
(***************************************************************************)
TasksOfRun(r) == {n \in TaskIdx : tasks[n].run = r}

C11_Original ==
    CopierReturned => cret = Cardinality(TasksOfRun(runs))

(***************************************************************************)
(* C11 amended: write_boot_files_distro returns 0 from every call that     *)
(* returns, a non-negative number that does not depend on how many matched *)
(* source files were processed nor on how many of their copies failed.     *)
(***************************************************************************)
C11_ReturnsZero ==
    /\ CopierReturned => cret = 0
    /\ cpc \in {"pair", "files"} => cret = -1

\* A call returned 0 after it processed two files, one copy having failed.
C11_Witness ==
    /\ CopierReturned /\ cret = 0
    /\ Cardinality(TasksOfRun(runs)) >= 2
    /\ \E n \in TasksOfRun(runs) : tasks[n].outcome = "failed"
    /\ \E n \in TasksOfRun(runs) : tasks[n].outcome = "copied"

(***************************************************************************)
(* C17: whenever the copier comes to write a destination file, the parent  *)
(* directory of the destination exists, having been created first when it  *)
(* was absent, for a literal source as for a glob match.                   *)
(***************************************************************************)
C17_ParentExistsBeforeWrite ==
    \A n \in TaskIdx : tasks[n].filedst.dir \in dirs

(***************************************************************************)
(* C20: in the copier a failure is isolated per pair, not per matched      *)
(* file: after the copy of one match failed, no further match of the same  *)
(* pair is processed in that call, the files of the pair copied before the *)
(* failure stay in place, and the pairs after it are still rendered.       *)
(***************************************************************************)
C20_IsolationPerPair ==
    \A n \in TaskIdx :
        tasks[n].outcome = "failed" =>
            /\ \A m \in TaskIdx :
                  (m > n /\ tasks[m].run = tasks[n].run)
                      => tasks[m].pair > tasks[n].pair
            /\ \A m \in TaskIdx :
                  (m < n /\ tasks[m].run = tasks[n].run /\ tasks[m].outcome = "copied")
                      => /\ tasks[m].filedst \in DOMAIN fs
                         /\ fs[tasks[m].filedst] = fs[tasks[m].file]
            /\ (tasks[n].run <= runs /\ tasks[n].pair < Len(template_files))
                  => [run |-> tasks[n].run, pair |-> tasks[n].pair + 1]
                         \in Range(rendered)

\* A glob pair matched two files: the copy of the first failed, the second
\* was not processed for that pair, and a later pair copied it.
C20_Witness ==
    /\ CopierReturned
    /\ \E n \in TaskIdx :
          /\ tasks[n].run = 1 /\ tasks[n].pair = 1 /\ tasks[n].outcome = "failed"
          /\ Cardinality(MatchSet(1)) = 2
          /\ Cardinality({m \in TaskIdx : tasks[m].run = 1 /\ tasks[m].pair = 1}) = 1
          /\ \E m \in TaskIdx :
                /\ tasks[m].run = 1 /\ tasks[m].pair = 2
                /\ tasks[m].outcome = "copied"
                /\ tasks[m].file \in MatchSet(1)

(***************************************************************************)
(* Partial sync: the type precondition, stated on the arguments.           *)
(***************************************************************************)
TypeViolation ==
    \/ ~argSystems.isList
    \/ \E n \in 1..Len(argSystems.elems) : argSystems.elems[n].type # "str"
    \/ argVerbose # "bool"

HasEmptyStr ==
    \E n \in 1..Len(argSystems.elems) :
        argSystems.elems[n] = [type |-> "str", val |-> EmptyStr]

\* The positions in the log of the events of one name.
PositionsOf(name) == {n \in 1..Len(log) : log[n].ev = name}

\* The per-host writes, boot files and templates, in the order made.
HostWriteEvents ==
    SelectSeq(log, LAMBDA e : e.ev \in {"write_all_system_files", "write_templates"})

(***************************************************************************)
(* C12: a partial sync whose arguments violate the type precondition       *)
(* (systems no list of strings, or verbose no boolean) raises TypeError    *)
(* before any I/O: no registry lookup, no menu items, no per-host write,   *)
(* no boot menu; nothing follows and nothing is returned.                  *)
(***************************************************************************)
C12_TypeErrorBeforeIO ==
    (op = "sync_systems" /\ TypeViolation) =>
        /\ log = <<>>
        /\ system_objs = <<>>
        /\ menu_items = NoMenu
        /\ pc \in {"typecheck", "raised"}
        /\ pc = "raised" => exc = "TypeError" /\ ret = "-" /\ ~ENABLED NextSync

\* TypeError for a list whose first element names a registered host and
\* whose second element is no string.
C12_Witness ==
    /\ op = "sync_systems" /\ pc = "raised" /\ exc = "TypeError"
    /\ argSystems.isList /\ Len(argSystems.elems) = 2
    /\ argSystems.elems[1].type = "str"
    /\ argSystems.elems[1].val \in Range(systems)
    /\ argSystems.elems[2].type # "str"
    /\ argVerbose = "bool"
    /\ log = <<>>

(***************************************************************************)
(* C15: during one partial sync the menu-items aggregate is computed       *)
(* exactly once, before the first per-host write, and every host is        *)
(* written with it, whatever its value.                                    *)
(***************************************************************************)
C15_MenuItemsOnce ==
    op = "sync_systems" =>
        /\ CountOf("get_menu_items") <= 1
        /\ \A w \in PositionsOf("write_all_system_files") :
              /\ \E g \in PositionsOf("get_menu_items") : g < w
              /\ log[w].menu = menuValue
        /\ pc \in {"return", "done"} => CountOf("get_menu_items") = 1

(***************************************************************************)
(* C16: a partial sync writes per-host configs only for hosts its          *)
(* identifiers resolve to, in the order of the list and only after every   *)
(* identifier has been looked up, the boot files of a host before its      *)
(* templates and both before the next host; a call that returns has        *)
(* written exactly the resolved hosts; a call that a failing per-host      *)
(* write ends has written the hosts before the failing one and none after. *)
(***************************************************************************)
C16_ResolvedHostsInListOrder ==
    op = "sync_systems" =>
        /\ HostWriteEvents # <<>> =>
              /\ ArgsOf("find_system") = InputNames
              /\ \A f \in PositionsOf("find_system") :
                    \A w \in PositionsOf("write_all_system_files")
                             \cup PositionsOf("write_templates") : f < w
              /\ IsPrefix(ArgsOf("write_all_system_files"), Resolved(Len(InputNames)))
        /\ \A n \in 1..Len(HostWriteEvents) :
              IF n % 2 = 1
              THEN HostWriteEvents[n].ev = "write_all_system_files"
              ELSE /\ HostWriteEvents[n].ev = "write_templates"
                   /\ HostWriteEvents[n].arg = HostWriteEvents[n - 1].arg
        /\ pc \in {"return", "done"} =>
              /\ ArgsOf("write_all_system_files") = Resolved(Len(InputNames))
              /\ ArgsOf("write_templates") = Resolved(Len(InputNames))
        /\ (pc = "raised" /\ exc = "Exception") =>
              /\ ArgsOf("write_all_system_files")
                    = SubSeq(Resolved(Len(InputNames)), 1, idx)
              /\ ArgsOf("write_templates")
                    = SubSeq(Resolved(Len(InputNames)), 1, idx - 1)
              /\ hostOutcome[system_objs[idx]] # "ok"

\* A call that returned after writing two hosts in the order of the list,
\* the reverse of the registry's order.
C16_Witness ==
    /\ op = "sync_systems" /\ pc = "done"
    /\ Len(systems) = 2
    /\ InputNames = <<systems[2], systems[1]>>
    /\ ArgsOf("write_all_system_files") = InputNames
    /\ ArgsOf("write_templates") = InputNames

(***************************************************************************)
(* C18 as stated: a list that contains an empty string is rejected as a    *)
(* precondition failure before any registry lookup or write.               *)
(***************************************************************************)
C18_Original ==
    (op = "sync_systems" /\ argSystems.isList /\ HasEmptyStr /\ pc # "typecheck") =>
        /\ pc = "raised"
        /\ log = <<>>

(***************************************************************************)
(* C18 amended: a partial sync accepts every list of strings, the empty    *)
(* string among them: a list of strings that contains an empty string      *)
(* (with a boolean verbose) passes the precondition check, never raises    *)
(* TypeError, and its empty string is looked up in the registry like any   *)
(* other identifier.                                                       *)
(***************************************************************************)
C18_EmptyStringAccepted ==
    (op = "sync_systems" /\ ~TypeViolation /\ HasEmptyStr) =>
        /\ exc # "TypeError"
        /\ pc = "raised" => log # <<>>
        /\ \A n \in 1..Len(argSystems.elems) :
              (argSystems.elems[n].val = EmptyStr
                  /\ (SsPastFind \/ (pc = "find" /\ idx > n)))
                  => \E f \in PositionsOf("find_system") : log[f].arg = EmptyStr

\* A call that returned: its list held an empty string, which was looked up,
\* and a host, which was written.
C18_Witness ==
    /\ op = "sync_systems" /\ pc = "done"
    /\ HasEmptyStr
    /\ EmptyStr \in Range(ArgsOf("find_system"))
    /\ CountOf("write_all_system_files") = 1

(***************************************************************************)
(* C14 as stated: a full sync that completes has run the Boot-File Copier  *)
(* (write_boot_files_distro) on every registered distribution.             *)
(***************************************************************************)
C14_Original ==
    (op = "sync" /\ pc = "done") =>
        \A d \in Range(distros) :
            \E n \in PositionsOf("write_boot_files_distro") : log[n].arg = d

(***************************************************************************)
(* C14 amended: a full sync that completes has attempted the copy of the   *)
(* distribution's files (copy_single_distro_files) for every registered    *)
(* distribution, in registry order, and never runs the Boot-File Copier;   *)
(* the Boot-File Copier is run on every registered distribution, in        *)
(* registry order, by write_boot_files, and on one distribution by         *)
(* add_single_distro after that distribution's files were copied.          *)
(***************************************************************************)
C14_SyncCopiesDistroFilesOnly ==
    /\ op = "sync" => CountOf("write_boot_files_distro") = 0
    /\ (op = "sync" /\ pc = "done") =>
          ArgsOf("copy_single_distro_files") = distros
    /\ (op = "write_boot_files" /\ pc = "done") =>
          /\ ArgsOf("write_boot_files_distro") = distros
          /\ Len(log) = Len(distros)
          /\ ret = "0"
    /\ (op = "add_single_distro" /\ pc = "done") =>
          log = << Ev("copy_single_distro_files", distros[idx], NoMenu),
                   Ev("write_boot_files_distro", distros[idx], NoMenu) >>
    /\ (op = "add_single_distro" /\ pc = "raised") =>
          CountOf("write_boot_files_distro") = 0

\* A full sync that completed with two distributions registered, both
\* copied, and no run of the Boot-File Copier.
C14_Witness ==
    /\ op = "sync" /\ pc = "done"
    /\ Len(distros) = MaxDistros
    /\ \A d \in Range(distros) : distroOutcome[d] = "ok"
    /\ ArgsOf("copy_single_distro_files") = distros
    /\ CountOf("write_boot_files_distro") = 0

(***************************************************************************)
(* settings/migrations/V3_0_1.py: validate, normalize, migrate.            *)
(*                                                                         *)
(* A line of modules.conf is a sequence of pieces of text; a piece is one  *)
(* of the three prefixes the migration looks for, or other text.           *)
(***************************************************************************)
Prefixes == {"authn_", "authz_", "manage_"}
OtherText == "x"
Pieces == Prefixes \cup {OtherText}
ConfLineSet == {<<p>> : p \in Pieces} \cup {<<p, q>> : p \in Pieces, q \in Pieces}
ConfFiles == SeqsUpTo(ConfLineSet, MaxLines)

\* re.match(prefix, line): the pattern is tried at the start of the line only.
re_match(prefix, line) == Len(line) >= 1 /\ line[1] = prefix

\* The substitutions of the sed commands the loop quotes.
SedTarget(p) ==
    CASE p = "authn_" -> "authentication."
      [] p = "authz_" -> "authorization."
      [] p = "manage_" -> "managers."
      [] OTHER -> p

\* V3_0_0.schema: the keys a document must have, and the types of their
\* values; a string for a boolean is coerced.
SchemaKeys == {"server", "manage_dhcp"}
ValueTypes == {"str", "bool", "int"}
Documents == UNION {[S -> ValueTypes] : S \in SUBSET SchemaKeys}

Conforms(doc) ==
    /\ DOMAIN doc = SchemaKeys
    /\ doc["server"] = "str"
    /\ doc["manage_dhcp"] \in {"bool", "str"}

\* schema.validate(settings): the coerced document, or SchemaError.
schema_validate(doc) ==
    IF Conforms(doc)
    THEN [raised |-> FALSE, data |-> [doc EXCEPT !["manage_dhcp"] = "bool"]]
    ELSE [raised |-> TRUE, data |-> NoDocument]

validate(doc) == ~schema_validate(doc).raised

normalize(doc) == schema_validate(doc)

InitMigrate ==
    /\ distros = <<>>
    /\ systems = <<>>
    /\ distroOutcome = <<>>
    /\ hostOutcome = <<>>
    /\ menuValue = "empty"
    /\ op = "migrate"
    /\ pc = "idle"
    /\ idx = 0
    /\ argSystems = [isList |-> FALSE, elems |-> <<>>]
    /\ argVerbose = "bool"
    /\ system_objs = <<>>
    /\ menu_items = NoMenu
    /\ log = <<>>
    /\ ret = "-"
    /\ exc = "-"
    /\ CopierIdle
    /\ settings \in Documents
    /\ confExists \in BOOLEAN
    /\ confLines \in (IF confExists THEN ConfFiles ELSE {<<>>})
    /\ confBefore = confLines
    /\ confWrites = 0
    /\ modules_conf = <<>>
    /\ mpc = "call"
    /\ lineIdx = 0
    /\ mret = NoDocument
    /\ mexc = "-"

\* with open(modules_conf_path, "r"): modules_conf = readlines()
MigrateRead ==
    /\ mpc = "call"
    /\ IF confExists
       THEN /\ modules_conf' = confLines
            /\ lineIdx' = 1
            /\ mpc' = "lines"
            /\ UNCHANGED mexc
       ELSE /\ mexc' = "FileNotFoundError"
            /\ mpc' = "raised"
            /\ UNCHANGED <<modules_conf, lineIdx>>
    /\ UNCHANGED <<syncVars, copierVars, settings, confExists, confLines,
                   confBefore, confWrites, mret>>

\* One iteration of "for line in modules_conf": the body of each of the
\* three tests is "pass".
MigrateLine ==
    /\ mpc = "lines" /\ lineIdx <= Len(modules_conf)
    /\ LET line == modules_conf[lineIdx]
       IN  modules_conf' =
              IF re_match("authn_", line) \/ re_match("authz_", line)
                    \/ re_match("manage_", line)
              THEN modules_conf
              ELSE modules_conf
    /\ lineIdx' = lineIdx + 1
    /\ UNCHANGED <<syncVars, copierVars, settings, confExists, confLines,
                   confBefore, confWrites, mpc, mret, mexc>>

\* with open(modules_conf_path, "w"): every line of modules_conf written.
MigrateWrite ==
    /\ mpc = "lines" /\ lineIdx > Len(modules_conf)
    /\ confLines' = modules_conf
    /\ confWrites' = confWrites + 1
    /\ mpc' = "validate"
    /\ UNCHANGED <<syncVars, copierVars, settings, confExists, confBefore,
                   modules_conf, lineIdx, mret, mexc>>

\* if not validate(settings): raise SchemaError; return normalize(settings)
MigrateValidate ==
    /\ mpc = "validate"
    /\ IF ~validate(settings)
       THEN /\ mexc' = "SchemaError"
            /\ mpc' = "raised"
            /\ UNCHANGED mret
       ELSE /\ mret' = normalize(settings).data
            /\ mpc' = "done"
            /\ UNCHANGED mexc
    /\ UNCHANGED <<syncVars, copierVars, settings, confExists, confLines,
                   confBefore, confWrites, modules_conf, lineIdx>>

NextMigrate ==
    \/ MigrateRead
    \/ MigrateLine
    \/ MigrateWrite
    \/ MigrateValidate

SpecMigrate == InitMigrate /\ [][NextMigrate]_vars

TypeOKMigrate ==
    /\ mpc \in {"call", "lines", "validate", "done", "raised"}
    /\ mexc \in {"-", "FileNotFoundError", "SchemaError"}
    /\ mret \in Documents \cup {NoDocument}
    /\ confWrites \in 0..1
    /\ lineIdx \in 0..(MaxLines + 2)

MigrateEnded == mpc \in {"done", "raised"}

StartsWithPrefix(line) == \E p \in Prefixes : re_match(p, line)

(***************************************************************************)
(* C13: migrate called with a document that does not conform to the schema *)
(* fails with a schema error, returns no document, and has not written     *)
(* the module-configuration file (here: a file that exists).               *)
(***************************************************************************)
C13_InvalidDocumentLeavesFileUnwritten ==
    (MigrateEnded /\ confExists /\ ~Conforms(settings)) =>
        /\ mpc = "raised"
        /\ mexc = "SchemaError"
        /\ mret = NoDocument
        /\ confWrites = 0

(***************************************************************************)
(* C19: after a successful migrate the module-configuration file has the   *)
(* lines it had, with the renames applied: no line still starts with       *)
(* authn_, authz_ or manage_; a line that started with one of them starts  *)
(* with its replacement; every other line is unchanged.                    *)
(***************************************************************************)
C19_RenamesApplied ==
    mpc = "done" =>
        /\ Len(confLines) = Len(confBefore)
        /\ \A n \in 1..Len(confLines) :
              /\ ~StartsWithPrefix(confLines[n])
              /\ IF StartsWithPrefix(confBefore[n])
                 THEN confLines[n][1] = SedTarget(confBefore[n][1])
                 ELSE confLines[n] = confBefore[n]

====
